---- MODULE Spec2Model ----
(***************************************************************************)
(* A model of minhash.py: shingle extraction (generate_shingles), the hash *)
(* family (generate_hash_funcs), signatures (calculate_signature), the     *)
(* similarity estimate (approx_jaccard_score) and the scoring part of      *)
(* __main__ (score matrix, histogram, candidate pairs).                    *)
(*                                                                         *)
(* Strings are sequences of byte values; Python lists are TLA+ sequences   *)
(* (1-based), numpy arrays that the code indexes with computed offsets are *)
(* functions over 0..len-1 so that the offsets of the code stay literal.   *)
(* A float score count/k is kept as the exact fraction [num, den].         *)
(***************************************************************************)
EXTENDS Integers, Sequences, FiniteSets, TLC

\* ---------------------------------------------------------------- bounds
\* Longest token sequence handed to generate_shingles.
MaxWords == 3
\* Largest shingle window (the count argument).
MaxCount == 3
\* Longest document text (in bytes) read by __main__.
MaxText == 3
\* Most documents in the corpus of the signature loop of __main__.
MaxDocs == 2
\* Largest number of hash functions asked of generate_hash_funcs.
MaxSigLen == 2
\* Stand-in for the population size 2**32 - 1 of random.sample (line 16).
CoeffRange == 4
\* Stand-in for the prime modulus 4294969733 (the prime argument).
Prime == 11
\* Most documents in the corpus of the scoring part of __main__.
MaxCorpus == 3
\* Signature length in the scoring part (stand-in for sig_len = 42).
ScoreSigLen == 4

\* ------------------------------------------------------- program constants
\* zlib.adler32: modulus of both running sums.
AdlerMod == 65521
\* zlib.adler32: the high sum is shifted by 16 bits.
AdlerShift == 65536
\* " ".join: the byte of a single space.
SpaceByte == 32
\* generate_shingles: count=2.
DefaultCount == 2
\* threshold = .7, in tenths.
ThresholdTenths == 7
\* bins = (0, .1, ..., 1, 42): the last edge, in tenths.
SentinelTenths == 420
\* np.empty: a slot not yet written (no hash value is negative).
Uninit == -1

\* --------------------------------------------------------------- helpers
SetMin(S) == CHOOSE x \in S : \A y \in S : x <= y

SeqsUpTo(S, n) == UNION {[1..m -> S] : m \in 0..n}

\* words[:n]
Take(s, n) == SubSeq(s, 1, IF n < Len(s) THEN n ELSE Len(s))

\* words[n:]
Drop(s, n) == SubSeq(s, (IF n < Len(s) THEN n ELSE Len(s)) + 1, Len(s))

\* ------------------------------------------------------ generate_shingles
\* " ".join(memory): the tokens with one space between neighbours.
RECURSIVE JoinSpace(_)
JoinSpace(tokens) ==
    IF tokens = <<>> THEN <<>>
    ELSE IF Len(tokens) = 1 THEN tokens[1]
    ELSE tokens[1] \o <<SpaceByte>> \o JoinSpace(Tail(tokens))

\* zlib.adler32 of a byte string: b * 65536 + a.
RECURSIVE AdlerSums(_, _, _)
AdlerSums(bytes, a, b) ==
    IF bytes = <<>> THEN <<a, b>>
    ELSE LET a2 == (a + bytes[1]) % AdlerMod
             b2 == (b + a2) % AdlerMod
         IN AdlerSums(Tail(bytes), a2, b2)

Adler32(bytes) ==
    LET s == AdlerSums(bytes, 1, 0) IN s[2] * AdlerShift + s[1]

\* The default mapper: lambda x: zlib.adler32(x.encode()).
mapper(bytes) == Adler32(bytes)

\* deque.append on a deque built with maxlen: a full deque drops its left end.
DequeAppendUnbounded(memory, word, maxlen) == Append(memory, word)

DequeAppend(memory, word, maxlen) ==
    IF maxlen = 0 THEN memory
    ELSE IF Len(memory) >= maxlen THEN Append(Tail(memory), word)
    ELSE Append(memory, word)

\* The generator object returned by generate_shingles(words, count): the body
\* has not run yet (line 7 runs at the first next()).
NewGen(ws, cnt) ==
    [pc |-> "start", words |-> ws, count |-> cnt, memory |-> <<>>, idx |-> 0]

\* One next() on the generator g: the frame after it, and what it yields
\* (<<item>>, or <<>> when the generator raises StopIteration).
GenResumeDropShort(g) ==
    IF g.pc = "start"
    THEN LET m == Take(g.words, g.count)
         IN IF Len(m) < g.count
            THEN [gen |-> [g EXCEPT !.pc = "done", !.memory = m], yield |-> <<>>]
            ELSE [gen |-> [g EXCEPT !.pc = "loop", !.memory = m],
                  yield |-> <<mapper(JoinSpace(m))>>]
    ELSE IF g.pc = "loop" /\ g.idx < Len(Drop(g.words, g.count))
    THEN LET m == DequeAppend(g.memory, Drop(g.words, g.count)[g.idx + 1], g.count)
         IN [gen |-> [g EXCEPT !.memory = m, !.idx = g.idx + 1],
             yield |-> <<mapper(JoinSpace(m))>>]
    ELSE [gen |-> [g EXCEPT !.pc = "done"], yield |-> <<>>]

GenResume(g) ==
    IF g.pc = "start"
    THEN LET m == Take(g.words, g.count)
         IN [gen |-> [g EXCEPT !.pc = "loop", !.memory = m],
             yield |-> <<mapper(JoinSpace(m))>>]
    ELSE IF g.pc = "loop" /\ g.idx < Len(Drop(g.words, g.count))
    THEN LET m == DequeAppend(g.memory, Drop(g.words, g.count)[g.idx + 1], g.count)
         IN [gen |-> [g EXCEPT !.memory = m, !.idx = g.idx + 1],
             yield |-> <<mapper(JoinSpace(m))>>]
    ELSE [gen |-> [g EXCEPT !.pc = "done"], yield |-> <<>>]

\* Everything the generator g still yields, in order (what list(g) collects).
RECURSIVE GenRest(_)
GenRest(g) ==
    LET r == GenResume(g)
    IN IF r.yield = <<>> THEN <<>> ELSE r.yield \o GenRest(r.gen)

\* The frame of g once it is exhausted.
RECURSIVE GenExhausted(_)
GenExhausted(g) ==
    LET r == GenResume(g)
    IN IF r.yield = <<>> THEN r.gen ELSE GenExhausted(r.gen)

\* str.split(" "): cut at every single space; empty tokens are kept.
RECURSIVE SplitFrom(_, _, _)
SplitFrom(text, cur, acc) ==
    IF text = <<>> THEN Append(acc, cur)
    ELSE IF text[1] = SpaceByte THEN SplitFrom(Tail(text), <<>>, Append(acc, cur))
    ELSE SplitFrom(Tail(text), Append(cur, text[1]), acc)

Split(text) == SplitFrom(text, <<>>, <<>>)

\* ---------------------------------------------------- generate_hash_funcs
\* func(a, b, c): the closure lambda x: (a * x + b) % c, kept as its coefficients.
func(a, b, c) == [a |-> a, b |-> b, c |-> c]

\* Calling a hash function on x.
Apply(h, x) == (h.a * x + h.b) % h.c

\* random.sample(range(population), m): any ordering of m distinct values;
\* the call raises ValueError when m > population.
SampleRaises(population, m) == m > population

Samples(population, m) ==
    {s \in [1..m -> 0..(population - 1)] :
        \A p, q \in 1..m : p # q => s[p] # s[q]}

\* [func(coeffs.pop(), coeffs.pop(), prime) for i in range(count)]: each
\* function takes the last coefficient as a and the one before it as b.
RECURSIVE PopPairs(_, _, _)
PopPairs(cs, n, prime) ==
    IF n = 0 THEN <<>>
    ELSE LET a == cs[Len(cs)]
             b == cs[Len(cs) - 1]
             rest == SubSeq(cs, 1, Len(cs) - 2)
         IN <<func(a, b, prime)>> \o PopPairs(rest, n - 1, prime)

\* The population random.sample draws from: range(2**32 - 1), whatever max is.
SamplePopulation(max) == CoeffRange

\* Every family generate_hash_funcs(count, max, prime) can return.
HashFamilies(cnt, max, prime) ==
    IF SampleRaises(SamplePopulation(max), 2 * cnt) THEN {}
    ELSE {PopPairs(cs, cnt, prime) : cs \in Samples(SamplePopulation(max), 2 * cnt)}

\* ---------------------------------------------------- calculate_signature
\* min(iterable) over a non-empty sequence of numbers.
RECURSIVE PyMinFrom(_, _)
PyMinFrom(xs, best) ==
    IF xs = <<>> THEN best
    ELSE PyMinFrom(Tail(xs), IF xs[1] < best THEN xs[1] ELSE best)

PyMinFirst(xs) == xs[1]

PyMin(xs) == PyMinFrom(Tail(xs), xs[1])

\* The shingles argument: a list (iterable again and again) or the generator
\* itself (iter(g) is g: what one pass consumed is gone).
ListIter(items) == [kind |-> "list", items |-> items, frame |-> NewGen(<<>>, 0)]

GenIter(g) == [kind |-> "gen", items |-> <<>>, frame |-> g]

\* One full pass over the iterable, as map(hash, shingles) consumed by min
\* makes it: the items seen, and the iterable afterwards.
DrainRestartable(it) ==
    IF it.kind = "list" THEN [items |-> it.items, it |-> it]
    ELSE [items |-> GenRest(it.frame), it |-> it]

Drain(it) ==
    IF it.kind = "list" THEN [items |-> it.items, it |-> it]
    ELSE [items |-> GenRest(it.frame),
          it |-> [it EXCEPT !.frame = GenExhausted(it.frame)]]

\* np.array([min(map(hash, shingles)) for hash in hash_funcs]); min of an
\* empty pass raises ValueError, which ends the call.
RECURSIVE CalcSigFrom(_, _, _)
CalcSigFrom(it, hfs, acc) ==
    IF hfs = <<>> THEN [status |-> "ok", value |-> acc]
    ELSE LET d == Drain(it)
             vals == [j \in 1..Len(d.items) |-> Apply(hfs[1], d.items[j])]
         IN IF vals = <<>> THEN [status |-> "ValueError", value |-> <<>>]
            ELSE CalcSigFrom(d.it, Tail(hfs), Append(acc, PyMin(vals)))

calculate_signature(shingles, hfs) == CalcSigFrom(shingles, hfs, <<>>)

\* ---------------------------------------------------- approx_jaccard_score
\* np.count_nonzero over a boolean vector.
RECURSIVE count_nonzero(_)
count_nonzero(bs) ==
    IF bs = <<>> THEN 0
    ELSE (IF bs[1] THEN 1 ELSE 0) + count_nonzero(Tail(bs))

\* a == b, elementwise, for two vectors of one length.
ElemEq(a, b) == [p \in 1..Len(a) |-> a[p] = b[p]]

ElemNe(a, b) == [p \in 1..Len(a) |-> a[p] # b[p]]

\* approx_jaccard_score(a, b) with axis=0 and b a vector: count / len(a).
approx_jaccard_score_ne(a, b) ==
    [num |-> count_nonzero(ElemNe(a, b)), den |-> Len(a)]

approx_jaccard_score(a, b) ==
    [num |-> count_nonzero(ElemEq(a, b)), den |-> Len(a)]

\* approx_jaccard_score(a, rows, 1) with rows a matrix (a is broadcast over
\* its rows): one score per row, indexed from 0.
approx_jaccard_rows(a, rows, nrows) ==
    [r \in 0..(nrows - 1) |-> approx_jaccard_score(a, rows[r])]

\* ------------------------------------------------------------------ state
VARIABLES
    entry,       \* which part of the program this run exercises
    words,       \* generate_shingles: the words argument
    count,       \* generate_shingles: the count argument
    gen,         \* the generator object of generate_shingles
    yielded,     \* what next() on the generator has returned so far
    h_count,     \* generate_hash_funcs: the count argument
    h_max,       \* generate_hash_funcs: the max argument
    coeffs,      \* generate_hash_funcs: the local coeffs
    h_pc,        \* generate_hash_funcs: "sample", "build", "returned", "raised"
    hash_funcs,  \* the hash family (the return value; hash_funcs of __main__)
    sig_lazy,    \* calculate_signature(generate_shingles(words, count), hash_funcs)
    sig_list,    \* calculate_signature(list(generate_shingles(...)), hash_funcs)
    sig_len,     \* __main__: sig_len
    ndocs,       \* __main__: len(docs)
    i,           \* __main__: the index of the signature loop
    doc,         \* __main__: doc['text'] of the current document
    shingles,    \* __main__: shingles
    sigs,        \* __main__: sigs
    m_pc,        \* __main__: position in lines 61-67
    ids,         \* __main__: ids
    scores,      \* __main__: scores
    hist,        \* __main__: hist
    hrow,        \* __main__: the row index of the histogram loop
    ti,          \* __main__: i of the candidate loop
    tj,          \* __main__: j of the candidate loop
    reported,    \* __main__: the pairs printed by line 99, in order
    s_pc,        \* __main__: position in lines 81-99
    read,        \* the last read of an entry through scores[x][y-x-1]
    sig_a,       \* approx_jaccard_score: a
    sig_b,       \* approx_jaccard_score: b
    score_ab,    \* approx_jaccard_score(a, b)
    score_ba,    \* approx_jaccard_score(b, a)
    score_aa     \* approx_jaccard_score(a, a)

genVars == <<words, count, gen, yielded>>
hashVars == <<h_count, h_max, coeffs, h_pc>>
sigVars == <<sig_lazy, sig_list>>
mainVars == <<sig_len, ndocs, i, doc, shingles, m_pc>>
scoreVars == <<ids, scores, hist, hrow, ti, tj, reported, s_pc, read>>
jacVars == <<sig_a, sig_b, score_ab, score_ba, score_aa>>
vars == <<entry, genVars, hashVars, hash_funcs, sigVars, mainVars, sigs, scoreVars, jacVars>>

\* A call that has not been made, and the outcomes of one that has.
NotRun == [status |-> "none", value |-> <<>>]

NoScore == [status |-> "none", num |-> 0, den |-> 0]
NoRead == [status |-> "none", x |-> 0, y |-> 0, num |-> 0, den |-> 0]

\* The input alphabets.
Tokens == {<<>>, <<97>>, <<98>>}
Texts == SeqsUpTo({SpaceByte, 97}, MaxText)
SlotValues == {0, 1}

\* Values of the variables a run does not use.
IdleGen ==
    /\ words = <<>> /\ count = 0 /\ gen = NewGen(<<>>, 0) /\ yielded = <<>>
IdleHash ==
    /\ h_count = 0 /\ h_max = 0 /\ coeffs = <<>> /\ h_pc = "idle"
IdleSig ==
    /\ sig_lazy = NotRun /\ sig_list = NotRun
IdleMain ==
    /\ sig_len = 0 /\ ndocs = 0 /\ i = 0 /\ doc = <<>> /\ shingles = <<>>
    /\ m_pc = "idle"
IdleScore ==
    /\ ids = <<>> /\ scores = <<>> /\ hist = <<>> /\ hrow = 0 /\ ti = 0 /\ tj = 0
    /\ reported = <<>> /\ s_pc = "idle" /\ read = NoRead
IdleJac ==
    /\ sig_a = <<>> /\ sig_b = <<>>
    /\ score_ab = NoScore /\ score_ba = NoScore /\ score_aa = NoScore

\* ------------------------------------------- generate_shingles, step by step
InitGen ==
    /\ entry = "generate_shingles"
    /\ words \in SeqsUpTo(Tokens, MaxWords)
    /\ count \in 1..MaxCount
    /\ gen = NewGen(words, count)
    /\ yielded = <<>>
    /\ IdleHash /\ hash_funcs = <<>> /\ IdleSig /\ IdleMain /\ sigs = <<>>
    /\ IdleScore /\ IdleJac

\* next(gen): the body runs to its next yield, or to its end.
GenNext ==
    /\ entry = "generate_shingles"
    /\ gen.pc # "done"
    /\ LET r == GenResume(gen)
       IN /\ gen' = r.gen
          /\ yielded' = yielded \o r.yield
    /\ UNCHANGED <<entry, words, count, hashVars, hash_funcs, sigVars, mainVars,
                   sigs, scoreVars, jacVars>>

SpecGen == InitGen /\ [][GenNext]_vars

\* --------------------------------------------------- generate_hash_funcs
InitHash ==
    /\ entry = "generate_hash_funcs"
    /\ h_count \in 0..MaxSigLen
    /\ h_max \in 0..CoeffRange
    /\ coeffs = <<>>
    /\ h_pc = "sample"
    /\ hash_funcs = <<>>
    /\ IdleGen /\ IdleSig /\ IdleMain /\ sigs = <<>> /\ IdleScore /\ IdleJac

\* Line 16: coeffs = random.sample(range(2**32 - 1), count * 2).
HashSample ==
    /\ entry = "generate_hash_funcs"
    /\ h_pc = "sample"
    /\ IF SampleRaises(SamplePopulation(h_max), 2 * h_count)
       THEN /\ h_pc' = "raised"
            /\ UNCHANGED coeffs
       ELSE /\ coeffs' \in Samples(SamplePopulation(h_max), 2 * h_count)
            /\ h_pc' = "build"
    /\ UNCHANGED <<entry, genVars, h_count, h_max, hash_funcs, sigVars, mainVars,
                   sigs, scoreVars, jacVars>>

\* Line 17: the list of functions is built (coeffs is popped empty) and returned.
HashBuild ==
    /\ entry = "generate_hash_funcs"
    /\ h_pc = "build"
    /\ hash_funcs' = PopPairs(coeffs, h_count, Prime)
    /\ coeffs' = SubSeq(coeffs, 1, Len(coeffs) - 2 * h_count)
    /\ h_pc' = "returned"
    /\ UNCHANGED <<entry, genVars, h_count, h_max, sigVars, mainVars, sigs,
                   scoreVars, jacVars>>

NextHash == HashSample \/ HashBuild

SpecHash == InitHash /\ [][NextHash]_vars

\* ------------------- calculate_signature on the generator and on its list
\* The families generate_hash_funcs returns for the counts 1..MaxSigLen.
FamiliesUpTo(n) == UNION {HashFamilies(k, CoeffRange, Prime) : k \in 1..n}

InitSig ==
    /\ entry = "calculate_signature"
    /\ words \in SeqsUpTo(Tokens, MaxWords)
    /\ count \in 1..MaxCount
    /\ gen = NewGen(words, count)
    /\ yielded = <<>>
    /\ hash_funcs \in FamiliesUpTo(MaxSigLen)
    /\ sig_lazy = NotRun /\ sig_list = NotRun
    /\ IdleHash /\ IdleMain /\ sigs = <<>> /\ IdleScore /\ IdleJac

\* calculate_signature(generate_shingles(words, count), hash_funcs)
CallLazy ==
    /\ entry = "calculate_signature"
    /\ sig_lazy = NotRun
    /\ sig_lazy' = calculate_signature(GenIter(NewGen(words, count)), hash_funcs)
    /\ UNCHANGED <<entry, genVars, hashVars, hash_funcs, sig_list, mainVars, sigs,
                   scoreVars, jacVars>>

\* calculate_signature(list(generate_shingles(words, count)), hash_funcs)
CallList ==
    /\ entry = "calculate_signature"
    /\ sig_list = NotRun
    /\ sig_list' = calculate_signature(ListIter(GenRest(NewGen(words, count))),
                                       hash_funcs)
    /\ UNCHANGED <<entry, genVars, hashVars, hash_funcs, sig_lazy, mainVars, sigs,
                   scoreVars, jacVars>>

NextSig == CallLazy \/ CallList

SpecSig == InitSig /\ [][NextSig]_vars

\* ------------------------------------------------ __main__, lines 61 to 67
InitMain ==
    /\ entry = "main_signatures"
    /\ sig_len \in 1..MaxSigLen
    /\ ndocs \in 0..MaxDocs
    /\ i = 0 /\ doc = <<>> /\ shingles = <<>>
    /\ m_pc = "hash_funcs"
    /\ hash_funcs = <<>>
    /\ sigs = <<>>
    /\ IdleGen /\ IdleHash /\ IdleSig /\ IdleScore /\ IdleJac

\* Line 61: hash_funcs = list(generate_hash_funcs(sig_len)).
MainHashFuncs ==
    /\ entry = "main_signatures"
    /\ m_pc = "hash_funcs"
    /\ IF HashFamilies(sig_len, CoeffRange, Prime) = {}
       THEN /\ m_pc' = "raised"
            /\ UNCHANGED hash_funcs
       ELSE /\ hash_funcs' \in HashFamilies(sig_len, CoeffRange, Prime)
            /\ m_pc' = "alloc"
    /\ UNCHANGED <<entry, genVars, hashVars, sigVars, sig_len, ndocs, i, doc,
                   shingles, sigs, scoreVars, jacVars>>

\* Line 64: sigs = np.empty((len(docs), sig_len)).
MainAlloc ==
    /\ entry = "main_signatures"
    /\ m_pc = "alloc"
    /\ sigs' = [r \in 0..(ndocs - 1) |-> [p \in 1..sig_len |-> Uninit]]
    /\ i' = 0
    /\ m_pc' = "loop"
    /\ UNCHANGED <<entry, genVars, hashVars, hash_funcs, sigVars, sig_len, ndocs,
                   doc, shingles, scoreVars, jacVars>>

\* Lines 65-66: the next document; shingles = list(generate_shingles(
\* doc['text'].split(" "))).
MainShingles ==
    /\ entry = "main_signatures"
    /\ m_pc = "loop"
    /\ i < ndocs
    /\ \E text \in Texts :
        /\ doc' = text
        /\ shingles' = GenRest(NewGen(Split(text), DefaultCount))
    /\ m_pc' = "store"
    /\ UNCHANGED <<entry, genVars, hashVars, hash_funcs, sigVars, sig_len, ndocs,
                   i, sigs, scoreVars, jacVars>>

\* A row of int64 values assigned into the float64 matrix: every value below
\* 2**53 is kept exactly, and a hash value is below prime < 2**33.
AsFloat64(row) == row

\* Line 67: sigs[i] = calculate_signature(shingles, hash_funcs).
MainStore ==
    /\ entry = "main_signatures"
    /\ m_pc = "store"
    /\ LET r == calculate_signature(ListIter(shingles), hash_funcs)
       IN IF r.status = "ok"
          THEN /\ sigs' = [sigs EXCEPT ![i] = AsFloat64(r.value)]
               /\ i' = i + 1
               /\ m_pc' = "loop"
          ELSE /\ m_pc' = "raised"
               /\ UNCHANGED <<sigs, i>>
    /\ UNCHANGED <<entry, genVars, hashVars, hash_funcs, sigVars, sig_len, ndocs,
                   doc, shingles, scoreVars, jacVars>>

\* The loop of line 65 ends.
MainLoopEnd ==
    /\ entry = "main_signatures"
    /\ m_pc = "loop"
    /\ i >= ndocs
    /\ m_pc' = "done"
    /\ UNCHANGED <<entry, genVars, hashVars, hash_funcs, sigVars, sig_len, ndocs,
                   i, doc, shingles, sigs, scoreVars, jacVars>>

NextMain == MainHashFuncs \/ MainAlloc \/ MainShingles \/ MainStore \/ MainLoopEnd

SpecMain == InitMain /\ [][NextMain]_vars

\* ------------------------------------------------ __main__, lines 81 to 99
\* ids[r]: the identifier of document r, opaque to the program.
IdOf(r) == <<"id", r>>

\* Indexing a one-dimensional array of n entries (kept as a function over
\* 0..n-1) with idx: a negative idx counts from the end, anything outside
\* -n..n-1 raises IndexError.
PyGet(arr, idx) ==
    LET n == Cardinality(DOMAIN arr)
    IN IF 0 <= idx /\ idx < n THEN [ok |-> TRUE, at |-> idx]
       ELSE IF idx < 0 /\ -n <= idx THEN [ok |-> TRUE, at |-> idx + n]
       ELSE [ok |-> FALSE, at |-> 0]

\* (row*10).astype(int)/10, in tenths: the score times ten, truncated.
\* (For every count/k with k <= 59, sig_len = 42 included, the float product
\* float(count/k)*10 truncates to the same integer as the exact 10*count/k.)
Tenths(score) == (10 * score.num) \div score.den

\* bins = (0, .1, .2, .3, .4, .5, .6, .7, .8, .9, 1, 42), in tenths.
BinsNoSentinel == [e \in 0..10 |-> e]

Bins == [e \in 0..11 |-> IF e <= 10 THEN e ELSE SentinelTenths]

\* hist = {0: 0, .1: 0, ..., 1: 0}, keyed in tenths.
EmptyHist == [b \in 0..10 |-> 0]

\* np.histogram(values, bins): one count per pair of neighbouring edges; a
\* bin holds edge <= v < next edge, and the last bin its right edge as well.
Histogram(values, bins) ==
    LET last == Cardinality(DOMAIN bins) - 2
    IN [e \in 0..last |->
          Cardinality({q \in DOMAIN values :
              /\ bins[e] <= values[q]
              /\ \/ values[q] < bins[e + 1]
                 \/ e = last /\ values[q] = bins[e + 1]})]

\* for i, c in enumerate(counts): hist[bins[i]] += c
RECURSIVE AddCounts(_, _, _, _)
AddCounts(h, counts, bins, e) ==
    IF e \notin DOMAIN counts THEN h
    ELSE AddCounts([h EXCEPT ![bins[e]] = @ + counts[e]], counts, bins, e + 1)

\* threshold < s and s < 1, for s = num/den and threshold = .7.
PassesThresholdInclusive(score) ==
    /\ ThresholdTenths * score.den < 10 * score.num
    /\ score.num <= score.den

PassesThreshold(score) ==
    /\ ThresholdTenths * score.den < 10 * score.num
    /\ score.num < score.den

\* The first pair (a, b) of the loops of lines 96-97 at or after (a, b):
\* a in range(n), b in range(a + 1, n); (n, n) when the loops are over.
RECURSIVE NextPair(_, _, _)
NextPair(a, b, n) ==
    IF a >= n THEN <<n, n>>
    ELSE IF b < n THEN <<a, b>>
    ELSE NextPair(a + 1, a + 2, n)

InitScore ==
    /\ entry = "main_scores"
    /\ ndocs \in 0..MaxCorpus
    /\ sig_len = ScoreSigLen
    /\ sigs \in [0..(ndocs - 1) -> [1..sig_len -> SlotValues]]
    \* Scores depend only on which slots of two signatures agree, so the first
    \* signature is taken to be all zeros.
    /\ ndocs > 0 => \A p \in 1..sig_len : sigs[0][p] = 0
    /\ ids = [r \in 0..(ndocs - 1) |-> IdOf(r)]
    /\ scores = <<>> /\ hist = <<>> /\ hrow = 0 /\ ti = 0 /\ tj = 0
    /\ reported = <<>> /\ read = NoRead
    /\ s_pc = "scores"
    /\ i = 0 /\ doc = <<>> /\ shingles = <<>> /\ m_pc = "idle"
    /\ hash_funcs = <<>>
    /\ IdleGen /\ IdleHash /\ IdleSig /\ IdleJac

\* Line 81: scores = [approx_jaccard_score(a, sigs[i+1:], 1) for i, a in
\* enumerate(sigs)].
ScoreRows ==
    /\ entry = "main_scores"
    /\ s_pc = "scores"
    /\ scores' = [r \in 0..(ndocs - 1) |->
                    approx_jaccard_rows(sigs[r],
                                        [q \in 0..(ndocs - r - 2) |-> sigs[r + 1 + q]],
                                        ndocs - r - 1)]
    /\ s_pc' = "bins"
    /\ UNCHANGED <<entry, genVars, hashVars, hash_funcs, sigVars, mainVars, sigs,
                   ids, hist, hrow, ti, tj, reported, read, jacVars>>

\* Lines 86-87: bins and the empty hist.
HistInit ==
    /\ entry = "main_scores"
    /\ s_pc = "bins"
    /\ hist' = EmptyHist
    /\ hrow' = 0
    /\ s_pc' = "hist"
    /\ UNCHANGED <<entry, genVars, hashVars, hash_funcs, sigVars, mainVars, sigs,
                   ids, scores, ti, tj, reported, read, jacVars>>

\* Lines 88-91: one row of scores is binned and added to hist.
HistRow ==
    /\ entry = "main_scores"
    /\ s_pc = "hist"
    /\ hrow < ndocs
    /\ LET row == scores[hrow]
           values == [q \in DOMAIN row |-> Tenths(row[q])]
           counts == Histogram(values, Bins)
       IN hist' = AddCounts(hist, counts, Bins, 0)
    /\ hrow' = hrow + 1
    /\ UNCHANGED <<entry, genVars, hashVars, hash_funcs, sigVars, mainVars, sigs,
                   ids, scores, ti, tj, reported, s_pc, read, jacVars>>

\* Lines 95-97: the histogram loop is over and the candidate loops begin.
PairsBegin ==
    /\ entry = "main_scores"
    /\ s_pc = "hist"
    /\ hrow >= ndocs
    /\ LET first == NextPair(0, 1, ndocs)
       IN /\ ti' = first[1]
          /\ tj' = first[2]
          /\ s_pc' = IF first[1] >= ndocs THEN "done" ELSE "pairs"
    /\ UNCHANGED <<entry, genVars, hashVars, hash_funcs, sigVars, mainVars, sigs,
                   ids, scores, hist, hrow, reported, read, jacVars>>

\* Lines 98-99: one pass of the inner loop body, then on to the next (i, j).
PairStep ==
    /\ entry = "main_scores"
    /\ s_pc = "pairs"
    /\ LET g == PyGet(scores[ti], tj - ti - 1)
           nxt == NextPair(ti, tj + 1, ndocs)
       IN IF ~g.ok
          THEN /\ s_pc' = "raised"
               /\ UNCHANGED <<ti, tj, reported>>
          ELSE /\ reported' = IF PassesThreshold(scores[ti][g.at])
                              THEN Append(reported, <<ids[ti], ids[tj]>>)
                              ELSE reported
               /\ ti' = nxt[1]
               /\ tj' = nxt[2]
               /\ s_pc' = IF nxt[1] >= ndocs THEN "done" ELSE "pairs"
    /\ UNCHANGED <<entry, genVars, hashVars, hash_funcs, sigVars, mainVars, sigs,
                   ids, scores, hist, hrow, read, jacVars>>

NextScore == ScoreRows \/ HistInit \/ HistRow \/ PairsBegin \/ PairStep

SpecScore == InitScore /\ [][NextScore]_vars

\* Lines 77-79: the entry of the pair (x, y) is read at scores[x][y-x-1],
\* for any two documents x and y.
ReadEntry ==
    /\ entry = "main_scores"
    /\ s_pc = "done"
    /\ read = NoRead
    /\ \E x, y \in 0..(ndocs - 1) :
        LET g == PyGet(scores[x], y - x - 1)
        IN read' = IF g.ok
                   THEN [status |-> "ok", x |-> x, y |-> y,
                         num |-> scores[x][g.at].num, den |-> scores[x][g.at].den]
                   ELSE [status |-> "IndexError", x |-> x, y |-> y,
                         num |-> 0, den |-> 0]
    /\ UNCHANGED <<entry, genVars, hashVars, hash_funcs, sigVars, mainVars, sigs,
                   ids, scores, hist, hrow, ti, tj, reported, s_pc, jacVars>>

NextRead == NextScore \/ ReadEntry

SpecRead == InitScore /\ [][NextRead]_vars

\* ---------------------------------------- approx_jaccard_score on two vectors
InitJac ==
    /\ entry = "approx_jaccard_score"
    /\ \E k \in 1..ScoreSigLen :
        /\ sig_a \in [1..k -> SlotValues]
        /\ sig_b \in [1..k -> SlotValues]
    /\ score_ab = NoScore /\ score_ba = NoScore /\ score_aa = NoScore
    /\ hash_funcs = <<>> /\ sigs = <<>>
    /\ IdleGen /\ IdleHash /\ IdleSig /\ IdleMain /\ IdleScore

Scored(s) == [status |-> "ok", num |-> s.num, den |-> s.den]

\* approx_jaccard_score(a, b)
ScoreAB ==
    /\ entry = "approx_jaccard_score"
    /\ score_ab = NoScore
    /\ score_ab' = Scored(approx_jaccard_score(sig_a, sig_b))
    /\ UNCHANGED <<entry, genVars, hashVars, hash_funcs, sigVars, mainVars, sigs,
                   scoreVars, sig_a, sig_b, score_ba, score_aa>>

\* approx_jaccard_score(b, a)
ScoreBA ==
    /\ entry = "approx_jaccard_score"
    /\ score_ba = NoScore
    /\ score_ba' = Scored(approx_jaccard_score(sig_b, sig_a))
    /\ UNCHANGED <<entry, genVars, hashVars, hash_funcs, sigVars, mainVars, sigs,
                   scoreVars, sig_a, sig_b, score_ab, score_aa>>

\* approx_jaccard_score(a, a)
ScoreAA ==
    /\ entry = "approx_jaccard_score"
    /\ score_aa = NoScore
    /\ score_aa' = Scored(approx_jaccard_score(sig_a, sig_a))
    /\ UNCHANGED <<entry, genVars, hashVars, hash_funcs, sigVars, mainVars, sigs,
                   scoreVars, sig_a, sig_b, score_ab, score_ba>>

NextJac == ScoreAB \/ ScoreBA \/ ScoreAA

SpecJac == InitJac /\ [][NextJac]_vars

\* ------------------------------------------------------------ properties
\* The windows of count consecutive words of ws, left to right.
Windows(ws, cnt) == [p \in 1..(Len(ws) - cnt + 1) |-> SubSeq(ws, p, p + cnt - 1)]

\* C1: for len(words) >= count, generate_shingles yields len(words) - count + 1
\* fingerprints, left to right, and the p-th is mapper of the p-th window of
\* count words joined by single spaces (checked on every prefix yielded, and
\* on the whole sequence once the generator is exhausted).
C1_ShingleWindows ==
    (entry = "generate_shingles" /\ Len(words) >= count) =>
        /\ Len(yielded) <= Len(words) - count + 1
        /\ \A p \in 1..Len(yielded) :
              yielded[p] = mapper(JoinSpace(Windows(words, count)[p]))
        /\ gen.pc = "done" => Len(yielded) = Len(words) - count + 1

C1_Witness ==
    /\ entry = "generate_shingles"
    /\ gen.pc = "done"
    /\ Len(words) >= count + 1
    /\ count >= 2
    /\ Len(yielded) = Len(words) - count + 1
    /\ words[1] # words[Len(words)]

\* C2: for len(words) < count (the empty sequence included), generate_shingles
\* yields exactly one shingle, mapper of all the words joined by single
\* spaces, and nothing after it.
C2_ShortDocument ==
    (entry = "generate_shingles" /\ Len(words) < count) =>
        /\ gen.pc = "start" => yielded = <<>>
        /\ gen.pc # "start" => yielded = <<mapper(JoinSpace(words))>>

C2_Witness ==
    /\ entry = "generate_shingles"
    /\ gen.pc = "done"
    /\ Len(words) < count
    /\ words # <<>>
    /\ Len(yielded) = 1

\* The shingles of a document of __main__: one per window of DefaultCount
\* tokens, or the single shingle of a text with fewer tokens.
DocShingles(text) ==
    LET ws == Split(text)
    IN IF Len(ws) >= DefaultCount
       THEN {mapper(JoinSpace(Windows(ws, DefaultCount)[p])) :
                p \in 1..(Len(ws) - DefaultCount + 1)}
       ELSE {mapper(JoinSpace(ws))}

SlotMin(h, shs) == SetMin({(h.a * x + h.b) % h.c : x \in shs})

C3_StoreStep ==
    (entry = "main_signatures" /\ m_pc = "store") =>
        /\ m_pc' = "loop"
        /\ i' = i + 1
        /\ DOMAIN sigs' = DOMAIN sigs
        /\ \A r \in DOMAIN sigs :
              IF r = i
              THEN /\ Len(sigs'[r]) = sig_len
                   /\ Len(hash_funcs) = sig_len
                   /\ \A p \in 1..sig_len :
                         sigs'[r][p] = SlotMin(hash_funcs[p], DocShingles(doc))
              ELSE sigs'[r] = sigs[r]

C3_AllStored ==
    entry = "main_signatures" =>
        /\ m_pc = "raised" => hash_funcs = <<>>
        /\ m_pc = "done" =>
              /\ DOMAIN sigs = 0..(ndocs - 1)
              /\ \A r \in DOMAIN sigs :
                    /\ Len(sigs[r]) = sig_len
                    /\ \A p \in 1..sig_len : sigs[r][p] # Uninit /\ sigs[r][p] >= 0

\* C3: every document of __main__, whatever its text (empty and shorter than
\* the window included), gets a stored signature of length sig_len whose slot
\* p is the minimum over the document's shingles of (a_p * s + b_p) mod prime;
\* storing it leaves the other rows alone, the loop never raises, and at its
\* end no row has another length or a slot never written.
C3_SignatureStored == [](C3_AllStored) /\ [][C3_StoreStep]_vars

C3_Witness ==
    /\ entry = "main_signatures"
    /\ m_pc = "done"
    /\ ndocs >= 2
    /\ sig_len >= 2
    /\ doc = <<>>
    /\ sigs[0] # sigs[1]
    /\ sigs[0][1] # sigs[0][2]

\* The coefficients of a family, multiplier and offset of each function in turn.
RECURSIVE CoeffList(_)
CoeffList(hfs) ==
    IF hfs = <<>> THEN <<>>
    ELSE <<hfs[1].a, hfs[1].b>> \o CoeffList(Tail(hfs))

HashCallOver == entry = "generate_hash_funcs" /\ h_pc \in {"returned", "raised"}

\* C4: with 2 * count <= max, generate_hash_funcs returns exactly count
\* functions whose 2 * count coefficients are pairwise distinct and all lie in
\* [0, max).
C4_Claimed ==
    (HashCallOver /\ 2 * h_count <= h_max) =>
        /\ h_pc = "returned"
        /\ Len(hash_funcs) = h_count
        /\ LET cs == CoeffList(hash_funcs)
           IN /\ \A p \in 1..Len(cs) : 0 <= cs[p] /\ cs[p] < h_max
              /\ \A p, q \in 1..Len(cs) : p # q => cs[p] # cs[q]

\* C5: with 2 * count > max, generate_hash_funcs signals an error and returns
\* no family.
C5_Claimed ==
    (HashCallOver /\ 2 * h_count > h_max) =>
        /\ h_pc = "raised"
        /\ hash_funcs = <<>>

\* C6: for two signatures of one length k >= 1, approx_jaccard_score(a, b) is
\* (number of slots where a and b agree) / k, lies in [0, 1], is the same for
\* (b, a), and is 1 for (a, a).
C6_JaccardScore ==
    entry = "approx_jaccard_score" =>
        LET k == Len(sig_a)
            m == Cardinality({p \in 1..k : sig_a[p] = sig_b[p]})
        IN /\ score_ab # NoScore =>
                 /\ score_ab.num = m /\ score_ab.den = k
                 /\ 0 <= score_ab.num /\ score_ab.num <= score_ab.den
           /\ score_ba # NoScore => score_ba.num = m /\ score_ba.den = k
           /\ (score_ab # NoScore /\ score_ba # NoScore) => score_ab = score_ba
           /\ score_aa # NoScore =>
                 score_aa.num = score_aa.den /\ score_aa.den = k

C6_Witness ==
    /\ entry = "approx_jaccard_score"
    /\ score_ab # NoScore /\ score_ba # NoScore /\ score_aa # NoScore
    /\ Len(sig_a) >= 3
    /\ 0 < score_ab.num /\ score_ab.num < score_ab.den

\* The number of slots in which the signatures of documents a and b agree.
MatchCount(a, b) == Cardinality({p \in 1..sig_len : sigs[a][p] = sigs[b][p]})

DocPairs == {pr \in (0..(ndocs - 1)) \X (0..(ndocs - 1)) : pr[1] < pr[2]}

\* The pairs with threshold < score < 1.
Candidates ==
    {pr \in DocPairs :
        /\ ThresholdTenths * sig_len < 10 * MatchCount(pr[1], pr[2])
        /\ MatchCount(pr[1], pr[2]) < sig_len}

\* C7: the pairs __main__ reports are exactly the (id_i, id_j), i < j, with
\* threshold < Similarity(sig_i, sig_j) < 1, each once; a pair scoring 1 or
\* at most the threshold is never reported, and the reads at offset j-i-1 of
\* row i never fail.
C7_CandidatePairs ==
    entry = "main_scores" =>
        /\ s_pc # "raised"
        /\ \A p \in 1..Len(reported) :
              \E pr \in Candidates : reported[p] = <<IdOf(pr[1]), IdOf(pr[2])>>
        /\ \A p, q \in 1..Len(reported) : p # q => reported[p] # reported[q]
        /\ s_pc = "done" =>
              {reported[p] : p \in 1..Len(reported)}
                  = {<<IdOf(pr[1]), IdOf(pr[2])>> : pr \in Candidates}

C7_Witness ==
    /\ entry = "main_scores"
    /\ s_pc = "done"
    /\ ndocs >= 3
    /\ read = NoRead
    /\ \E p \in 1..Len(reported) : reported[p] = <<IdOf(0), IdOf(2)>>
    /\ \E pr \in DocPairs : MatchCount(pr[1], pr[2]) = sig_len
    /\ Len(reported) = 2

RECURSIVE SumHist(_, _)
SumHist(h, b) == IF b \notin DOMAIN h THEN 0 ELSE h[b] + SumHist(h, b + 1)

\* C8: after the histogram pass every pair of documents is counted in exactly
\* the bucket floor(score * 10) / 10, bucket 1.0 counts exactly the pairs
\* scoring 1.0, and the counts add up to n * (n - 1) / 2.
C8_Histogram ==
    (entry = "main_scores" /\ s_pc \in {"pairs", "done"}) =>
        /\ DOMAIN hist = 0..10
        /\ \A b \in 0..10 :
              hist[b] = Cardinality({pr \in DocPairs :
                            (10 * MatchCount(pr[1], pr[2])) \div sig_len = b})
        /\ hist[10] = Cardinality({pr \in DocPairs :
                          MatchCount(pr[1], pr[2]) = sig_len})
        /\ 2 * SumHist(hist, 0) = ndocs * (ndocs - 1)

C8_Witness ==
    /\ entry = "main_scores"
    /\ s_pc = "pairs"
    /\ ndocs >= 3
    /\ hist[10] = 1
    /\ hist[0] = 0
    /\ SumHist(hist, 0) = 3
    /\ \E b \in 1..9 : hist[b] = 2

\* C9: reading the entry of (x, y) with y <= x through scores[x][y-x-1] is an
\* error; it never returns the score of another pair.
C9_Claimed ==
    (entry = "main_scores" /\ read # NoRead /\ read.y <= read.x) =>
        read.status = "IndexError"

\* The signature in which every hash function sees every shingle of the words.
WordShingles(ws, cnt) ==
    IF Len(ws) >= cnt
    THEN {mapper(JoinSpace(Windows(ws, cnt)[p])) : p \in 1..(Len(ws) - cnt + 1)}
    ELSE {mapper(JoinSpace(ws))}

FullSignature(ws, cnt, hfs) ==
    [status |-> "ok",
     value |-> [p \in 1..Len(hfs) |-> SlotMin(hfs[p], WordShingles(ws, cnt))]]

\* C10: calculate_signature on the generator of generate_shingles returns the
\* same length-k signature as on the list of the same shingles.
C10_Claimed ==
    (entry = "calculate_signature" /\ sig_lazy # NotRun /\ sig_list # NotRun) =>
        /\ sig_lazy = sig_list
        /\ sig_lazy.status = "ok"
        /\ Len(sig_lazy.value) = Len(hash_funcs)

\* C10, amended: on the list, the call returns the signature in which every
\* hash function sees every shingle; on the generator it returns that same
\* signature only for k = 1, and for k >= 2 it raises ValueError, the first
\* hash function having consumed the generator.
C10_SinglePass ==
    entry = "calculate_signature" =>
        /\ sig_list # NotRun => sig_list = FullSignature(words, count, hash_funcs)
        /\ sig_lazy # NotRun =>
              IF Len(hash_funcs) = 1
              THEN sig_lazy = FullSignature(words, count, hash_funcs)
              ELSE sig_lazy = [status |-> "ValueError", value |-> <<>>]

C10_Witness ==
    /\ entry = "calculate_signature"
    /\ Len(hash_funcs) >= 2
    /\ Len(words) > count
    /\ sig_lazy.status = "ValueError"
    /\ sig_list.status = "ok"
    /\ Len(sig_list.value) = Len(hash_funcs)
    /\ sig_list.value[1] # sig_list.value[2]

====
